---- MODULE Spec2Model ----
(***************************************************************************)
(* A model of dollarsignteam/nestjs-activemq:                              *)
(*   - AMQPService.createConnection (lib/services/amqp.service.ts): the    *)
(*     bounded open-retry loop, the disconnected handler and the           *)
(*     close handler with its one-shot reopen timer;                       *)
(*   - AMQPService.createSender and createReceiver: the lookup of the      *)
(*     connection and the link creation; the receiver's initial credit,    *)
(*     the top-up on link open and the handlers that only log;             *)
(*   - loadTestA and loadTestB of src/app.service.ts, over a producer      *)
(*     whose send resolves with a result or rejects;                       *)
(*   - the consumers registered in src/app.service.ts, run by a dispatcher *)
(*     that is not part of the sources at hand and is modelled from        *)
(*     section 4.6 of the specification.                                   *)
(* The transport library (rhea-promise) is the environment: an open()      *)
(* resolves or rejects, an open connection may report `disconnected` or    *)
(* `connection_close`, a disconnected one may still report                 *)
(* `connection_close`, and the peer delivers a message whenever the        *)
(* receiver holds credit. An open() that fails may be one the peer         *)
(* refused by closing the connection, which is reported as                 *)
(* `connection_close` like any other close.                                *)
(***************************************************************************)
EXTENDS Integers, Sequences, FiniteSets, TLC

\* ------------------------------------------------------------ bounds
MaxCalls == 2        \* createConnection calls in a run
MaxLimit == 2        \* reconnect_limit ranges over unset and 0..MaxLimit
MaxPeerEvents == 2   \* disconnected / connection_close events sent by the peer
MaxPrefetch == 3     \* a receiver's credits range over 1..MaxPrefetch
MaxBurst == 3        \* messages delivered to one receiver in a run
MaxLinks == 2        \* createSender / createReceiver calls in a run
MaxCount == 3        \* the count of a load test ranges over 0..MaxCount

\* --------------------------------------------------- program constants
DefaultReconnectDelay == 3000
DefaultReconnectLimit == 3
ReopenDelay == 1000

\* The granularity of the clock: every delay used below is a multiple of it.
TickMs == ReopenDelay

\* An option that is not set; the absent options object.
Unset == 0 - 1
NullOptions == [null |-> TRUE]
Names == {"default", "custom"}
Calls == 1..MaxCalls
Registrations == {"demo2", "demo3"}
Messages == 1..MaxBurst

AMQP_CONNECTION_DISCONNECTED == "CONNECTION_DISCONNECTED"
AMQP_CONNECTION_RECONNECT == "CONNECTION_RECONNECT"

\* AMQPModuleOptions: name, connectionOptions.reconnect_limit and
\* connectionOptions.initial_reconnect_delay; or no options object at all.
Options ==
  {NullOptions} \cup
  [name : Names,
   reconnect_limit : {Unset} \cup (0..MaxLimit),
   initial_reconnect_delay : {Unset, TickMs}]

\* getConnectionToken: the token of a connection name; absent options name
\* the default connection.
getConnectionToken(o) ==
  IF o = NullOptions THEN "default:connection" ELSE o.name \o ":connection"

\* if (!options); the variant is the function without that check.
OptionsInvalidNever(o) == FALSE
OptionsInvalid(o) == o = NullOptions

\* options.connectionOptions?.reconnect_limit ?? 3
ReconnectLimit(o) ==
  IF o.reconnect_limit = Unset THEN DefaultReconnectLimit ELSE o.reconnect_limit

\* options.connectionOptions?.initial_reconnect_delay ?? 3000; the variant
\* waits the delay of the reopen timer whatever the options say.
ReconnectDelayOfReopen(o) == ReopenDelay
ReconnectDelay(o) ==
  IF o.initial_reconnect_delay = Unset THEN DefaultReconnectDelay
  ELSE o.initial_reconnect_delay

\* while (retry < limit && !connection.isOpen()); the variant compares with <=.
LoopAgainInclusive(r, o, isOpen) == r <= ReconnectLimit(o) /\ ~isOpen
LoopAgain(r, o, isOpen) == r < ReconnectLimit(o) /\ ~isOpen

\* The handlers createConnection registers on the connection.
RegisteredHandlers ==
  {"connection_open", "connection_error", "disconnected", "connection_close"}

VARIABLES
  pc,          \* per call: idle, firstOpen, waiting, retryOpen, returned, thrown
  opts,        \* per call: the options it was called with
  connState,   \* per call's connection: none, new, open, disconnected, closed
  handlers,    \* per connection: the events with a registered handler
  retry,       \* per call: the local variable retry
  waitLeft,    \* per call: ms left of the pending initial_reconnect_delay wait
  result,      \* per call: pending, connection, undefined, or the error thrown
  timers,      \* per connection: ms left of each pending reopen timer
  reopening,   \* per connection: open() calls of reopen timers in flight
  emitted,     \* the events emitted on AMQPService.eventEmitter, in order
  attempts,    \* per call: open() calls made by createConnection after the first
  opened,      \* per call: open() calls of createConnection that resolved
  opens,       \* per connection: every open() call made on it
  peerEvents,  \* events the peer has sent so far
  waits,       \* per call: waits of initial_reconnect_delay started
  waited,      \* per call: ms that have passed of its latest wait
  closes,      \* per connection: connection_close events handled
  fired,       \* per connection: reopen timers that have fired
  reopened,    \* per connection: reopen timers whose open() resolved
  links,       \* the createSender / createReceiver calls made and how each ended
  attached,    \* per registration: its receiver link is attached
  prefetch,    \* per receiver: the credits it was created with
  credit,      \* per receiver: the credit the link holds
  arrived,     \* per receiver: messages delivered so far (numbered 1..arrived)
  waitingQ,    \* per registration: deliveries waiting for a slot, in order
  running,     \* per registration: deliveries whose handler is running
  dispatched,  \* per registration: deliveries in the order their handler started
  settled,     \* per delivery: none, accepted or rejected
  alive,       \* per registration: no exception has left the dispatcher
  logged,      \* per registration: handler errors logged
  queued,      \* per registration: deliveries that had to wait for a slot
  lastEvent,   \* the receiver event the latest step handled by logging only
  testPc,      \* per load test: idle, running or done
  count,       \* per load test: the count it was called with
  issued,      \* per load test: the indexes passed to producer.send, in order
  outstanding, \* per load test: sends whose result has not resolved
  observed,    \* per load test: per index, the result its callback has seen
  errorLog     \* per load test: the indexes logged with logger.error, in order

connVars ==
  <<pc, opts, connState, handlers, retry, waitLeft, result, timers, reopening,
    emitted, attempts, opened, opens, peerEvents, waits, waited, closes,
    fired, reopened>>

dispVars ==
  <<attached, prefetch, credit, arrived, waitingQ, running, dispatched, settled,
    alive, logged, queued, lastEvent>>

sendVars == <<testPc, count, issued, outstanding, observed, errorLog>>

vars == <<connVars, dispVars, links, sendVars>>

IsOpen(c) == connState[c] = "open"

Emit(ev, c, by) == Append(emitted, [ev |-> ev, conn |-> c, by |-> by])

ConnInit ==
  /\ pc = [c \in Calls |-> "idle"]
  /\ opts = [c \in Calls |-> NullOptions]
  /\ connState = [c \in Calls |-> "none"]
  /\ handlers = [c \in Calls |-> {}]
  /\ retry = [c \in Calls |-> 0]
  /\ waitLeft = [c \in Calls |-> 0]
  /\ result = [c \in Calls |-> [kind |-> "pending"]]
  /\ timers = [c \in Calls |-> <<>>]
  /\ reopening = [c \in Calls |-> 0]
  /\ emitted = <<>>
  /\ attempts = [c \in Calls |-> 0]
  /\ opened = [c \in Calls |-> 0]
  /\ opens = [c \in Calls |-> 0]
  /\ peerEvents = 0
  /\ waits = [c \in Calls |-> 0]
  /\ waited = [c \in Calls |-> 0]
  /\ closes = [c \in Calls |-> 0]
  /\ fired = [c \in Calls |-> 0]
  /\ reopened = [c \in Calls |-> 0]

\* createConnection up to its first await: the token, the options check, the
\* container and connection, the four handlers, and the first open().
CreateConnection(c, o) ==
  /\ pc[c] = "idle"
  /\ \A d \in Calls : d < c => pc[d] # "idle"
  /\ opts' = [opts EXCEPT ![c] = o]
  /\ IF OptionsInvalid(o)
     THEN /\ pc' = [pc EXCEPT ![c] = "thrown"]
          /\ result' = [result EXCEPT ![c] =
               [kind |-> "Error", message |-> "Invalid connection options",
                token |-> getConnectionToken(o)]]
          /\ UNCHANGED <<connState, handlers, opens>>
     ELSE IF o = NullOptions
     THEN \* const { connectionUri, connectionOptions } = options
          /\ pc' = [pc EXCEPT ![c] = "thrown"]
          /\ result' = [result EXCEPT ![c] = [kind |-> "TypeError"]]
          /\ UNCHANGED <<connState, handlers, opens>>
     ELSE /\ pc' = [pc EXCEPT ![c] = "firstOpen"]
          /\ connState' = [connState EXCEPT ![c] = "new"]
          /\ handlers' = [handlers EXCEPT ![c] = RegisteredHandlers]
          /\ opens' = [opens EXCEPT ![c] = @ + 1]
          /\ UNCHANGED result
  /\ UNCHANGED <<retry, waitLeft, timers, reopening, emitted, attempts, opened,
                 peerEvents>>
  /\ UNCHANGED <<waits, waited, closes, fired, reopened>>
  /\ UNCHANGED <<dispVars, links, sendVars>>

\* One pass of `do {`: retry++ and the wait of initial_reconnect_delay.
EnterLoop(c) ==
  /\ retry' = [retry EXCEPT ![c] = @ + 1]
  /\ waitLeft' = [waitLeft EXCEPT ![c] = ReconnectDelay(opts[c])]
  /\ waits' = [waits EXCEPT ![c] = @ + 1]
  /\ waited' = [waited EXCEPT ![c] = 0]
  /\ pc' = [pc EXCEPT ![c] = "waiting"]

\* try { await connection.open() } resolves: return connection.
FirstOpenOk(c) ==
  /\ pc[c] = "firstOpen"
  /\ connState' = [connState EXCEPT ![c] = "open"]
  /\ opened' = [opened EXCEPT ![c] = @ + 1]
  /\ pc' = [pc EXCEPT ![c] = "returned"]
  /\ result' = [result EXCEPT ![c] = [kind |-> "connection", conn |-> c]]
  /\ UNCHANGED <<opts, handlers, retry, waitLeft, timers, reopening, emitted,
                 attempts, opens, peerEvents>>
  /\ UNCHANGED <<waits, waited, closes, fired, reopened>>
  /\ UNCHANGED <<dispVars, links, sendVars>>

\* The first open() rejects: catch, retry = 0, and the loop is entered.
FirstOpenFail(c) ==
  /\ pc[c] = "firstOpen"
  /\ ~IsOpen(c)
  /\ EnterLoop(c)
  /\ UNCHANGED <<opts, connState, handlers, result, timers, reopening, emitted,
                 attempts, opened, opens, peerEvents>>
  /\ UNCHANGED <<closes, fired, reopened>>
  /\ UNCHANGED <<dispVars, links, sendVars>>

\* Time passes: no timer that is due is overtaken.
Tick ==
  /\ \E c \in Calls : pc[c] = "waiting" \/ timers[c] # <<>>
  /\ \A c \in Calls : pc[c] = "waiting" => waitLeft[c] > 0
  /\ \A c \in Calls : \A i \in 1..Len(timers[c]) : timers[c][i] > 0
  /\ waitLeft' = [c \in Calls |->
       IF pc[c] = "waiting" THEN waitLeft[c] - TickMs ELSE waitLeft[c]]
  /\ waited' = [c \in Calls |->
       IF pc[c] = "waiting" THEN waited[c] + TickMs ELSE waited[c]]
  /\ timers' = [c \in Calls |->
       [i \in 1..Len(timers[c]) |-> timers[c][i] - TickMs]]
  /\ UNCHANGED <<pc, opts, connState, handlers, retry, result, reopening,
                 emitted, attempts, opened, opens, peerEvents>>
  /\ UNCHANGED <<waits, closes, fired, reopened>>
  /\ UNCHANGED <<dispVars, links, sendVars>>

\* The wait is over: the retry's connection.open() is called.
WaitDone(c) ==
  /\ pc[c] = "waiting"
  /\ waitLeft[c] = 0
  /\ pc' = [pc EXCEPT ![c] = "retryOpen"]
  /\ attempts' = [attempts EXCEPT ![c] = @ + 1]
  /\ opens' = [opens EXCEPT ![c] = @ + 1]
  /\ UNCHANGED <<opts, connState, handlers, retry, waitLeft, result, timers,
                 reopening, emitted, opened, peerEvents>>
  /\ UNCHANGED <<waits, waited, closes, fired, reopened>>
  /\ UNCHANGED <<dispVars, links, sendVars>>

\* What the bare `return;` of the retry path hands to the caller.
RetryReturn(c) == [kind |-> "undefined"]

\* eventEmitter.emit(AMQP_CONNECTION_RECONNECT) of the retry path; the
\* variant emits CONNECTION_DISCONNECTED there as well.
OnRetryOpenedAlsoDisconnected(c) ==
  Append(Emit(AMQP_CONNECTION_DISCONNECTED, c, "create"),
         [ev |-> AMQP_CONNECTION_RECONNECT, conn |-> c, by |-> "create"])
OnRetryOpened(c) == Emit(AMQP_CONNECTION_RECONNECT, c, "create")

\* The retry's open() resolves, so the connection is open and the test
\* if (connection.isOpen()) passes: emit CONNECTION_RECONNECT and `return;`.
RetryOpenOk(c) ==
  /\ pc[c] = "retryOpen"
  /\ connState' = [connState EXCEPT ![c] = "open"]
  /\ opened' = [opened EXCEPT ![c] = @ + 1]
  /\ emitted' = OnRetryOpened(c)
  /\ pc' = [pc EXCEPT ![c] = "returned"]
  /\ result' = [result EXCEPT ![c] = RetryReturn(c)]
  /\ UNCHANGED <<opts, handlers, retry, waitLeft, timers, reopening, attempts,
                 opens, peerEvents>>
  /\ UNCHANGED <<waits, waited, closes, fired, reopened>>
  /\ UNCHANGED <<dispVars, links, sendVars>>

\* The retry's open() rejects: log, then the loop condition.
RetryOpenFail(c) ==
  /\ pc[c] = "retryOpen"
  /\ ~IsOpen(c)
  /\ IF LoopAgain(retry[c], opts[c], IsOpen(c))
     THEN EnterLoop(c) /\ UNCHANGED result
     ELSE /\ pc' = [pc EXCEPT ![c] = "returned"]
          /\ result' = [result EXCEPT ![c] = [kind |-> "connection", conn |-> c]]
          /\ UNCHANGED <<retry, waitLeft, waits, waited>>
  /\ UNCHANGED <<opts, connState, handlers, timers, reopening, emitted,
                 attempts, opened, opens, peerEvents>>
  /\ UNCHANGED <<closes, fired, reopened>>
  /\ UNCHANGED <<dispVars, links, sendVars>>

\* connection.on(disconnected): warn and emit CONNECTION_DISCONNECTED; the
\* variant is a handler that only warns.
OnDisconnectedSilent(c, by) == emitted
OnDisconnected(c, by) == Emit(AMQP_CONNECTION_DISCONNECTED, c, by)

\* The peer drops an open connection: the transport reports `disconnected`.
PeerDisconnected(c) ==
  /\ IsOpen(c)
  /\ peerEvents < MaxPeerEvents
  /\ peerEvents' = peerEvents + 1
  /\ connState' = [connState EXCEPT ![c] = "disconnected"]
  /\ emitted' = IF "disconnected" \in handlers[c]
                THEN OnDisconnected(c, "peer") ELSE emitted
  /\ UNCHANGED <<pc, opts, handlers, retry, waitLeft, result, timers,
                 reopening, attempts, opened, opens>>
  /\ UNCHANGED <<waits, waited, closes, fired, reopened>>
  /\ UNCHANGED <<dispVars, links, sendVars>>

\* connection.on(connection_close): log and setTimeout(reopen, 1000); the
\* variant sets the timer twice.
OnConnectionCloseTwice(c) == Append(Append(timers[c], ReopenDelay), ReopenDelay)
OnConnectionClose(c) == Append(timers[c], ReopenDelay)

\* The transport reports `connection_close` for an open or disconnected
\* connection.
PeerClose(c) ==
  /\ connState[c] \in {"open", "disconnected"}
  /\ peerEvents < MaxPeerEvents
  /\ peerEvents' = peerEvents + 1
  /\ connState' = [connState EXCEPT ![c] = "closed"]
  /\ timers' = [timers EXCEPT ![c] =
       IF "connection_close" \in handlers[c] THEN OnConnectionClose(c) ELSE @]
  /\ closes' = [closes EXCEPT ![c] =
       IF "connection_close" \in handlers[c] THEN @ + 1 ELSE @]
  /\ UNCHANGED <<pc, opts, handlers, retry, waitLeft, result, reopening,
                 emitted, attempts, opened, opens>>
  /\ UNCHANGED <<waits, waited, fired, reopened>>
  /\ UNCHANGED <<dispVars, links, sendVars>>

\* The reopen timer fires: the synthetic `disconnected` dispatch, which runs
\* the disconnected handler, and then context.connection.open().
TimerFire(c) ==
  /\ timers[c] # <<>>
  /\ Head(timers[c]) = 0
  /\ timers' = [timers EXCEPT ![c] = Tail(@)]
  /\ emitted' = OnDisconnected(c, "timer")
  /\ reopening' = [reopening EXCEPT ![c] = @ + 1]
  /\ fired' = [fired EXCEPT ![c] = @ + 1]
  /\ opens' = [opens EXCEPT ![c] = @ + 1]
  /\ UNCHANGED <<pc, opts, connState, handlers, retry, waitLeft, result,
                 attempts, opened, peerEvents>>
  /\ UNCHANGED <<waits, waited, closes, reopened>>
  /\ UNCHANGED <<dispVars, links, sendVars>>

\* .then: the reopen succeeded, emit CONNECTION_RECONNECT.
TimerOpenOk(c) ==
  /\ reopening[c] > 0
  /\ reopening' = [reopening EXCEPT ![c] = @ - 1]
  /\ connState' = [connState EXCEPT ![c] = "open"]
  /\ emitted' = Emit(AMQP_CONNECTION_RECONNECT, c, "timer")
  /\ reopened' = [reopened EXCEPT ![c] = @ + 1]
  /\ UNCHANGED <<pc, opts, handlers, retry, waitLeft, result, timers,
                 attempts, opened, opens, peerEvents>>
  /\ UNCHANGED <<waits, waited, closes, fired>>
  /\ UNCHANGED <<dispVars, links, sendVars>>

\* .catch: the reopen failed, the error is logged; clearTimeout.
TimerOpenFail(c) ==
  /\ reopening[c] > 0
  /\ ~IsOpen(c)
  /\ reopening' = [reopening EXCEPT ![c] = @ - 1]
  /\ UNCHANGED <<pc, opts, connState, handlers, retry, waitLeft, result,
                 timers, emitted, attempts, opened, opens, peerEvents>>
  /\ UNCHANGED <<waits, waited, closes, fired, reopened>>
  /\ UNCHANGED <<dispVars, links, sendVars>>

\* The peer answers an open() in flight by closing the connection: the
\* transport reports `connection_close`, so the handler registered before
\* the first open() runs, and the open() rejects.
Refused(c) ==
  /\ ~IsOpen(c)
  /\ "connection_close" \in handlers[c]
  /\ peerEvents < MaxPeerEvents
  /\ peerEvents' = peerEvents + 1
  /\ connState' = [connState EXCEPT ![c] = "closed"]
  /\ timers' = [timers EXCEPT ![c] = OnConnectionClose(c)]
  /\ closes' = [closes EXCEPT ![c] = @ + 1]

\* The first open() is refused: the close handler, then catch and the loop.
FirstOpenRefused(c) ==
  /\ pc[c] = "firstOpen"
  /\ Refused(c)
  /\ EnterLoop(c)
  /\ UNCHANGED <<opts, handlers, result, reopening, emitted, attempts, opened,
                 opens>>
  /\ UNCHANGED <<fired, reopened>>
  /\ UNCHANGED <<dispVars, links, sendVars>>

\* A retry's open() is refused: the close handler, then the loop condition.
RetryOpenRefused(c) ==
  /\ pc[c] = "retryOpen"
  /\ Refused(c)
  /\ IF LoopAgain(retry[c], opts[c], IsOpen(c))
     THEN EnterLoop(c) /\ UNCHANGED result
     ELSE /\ pc' = [pc EXCEPT ![c] = "returned"]
          /\ result' = [result EXCEPT ![c] = [kind |-> "connection", conn |-> c]]
          /\ UNCHANGED <<retry, waitLeft, waits, waited>>
  /\ UNCHANGED <<opts, handlers, reopening, emitted, attempts, opened, opens>>
  /\ UNCHANGED <<fired, reopened>>
  /\ UNCHANGED <<dispVars, links, sendVars>>

\* A reopen timer's open() is refused: the close handler sets the next
\* timer, and .catch logs the error.
TimerOpenRefused(c) ==
  /\ reopening[c] > 0
  /\ Refused(c)
  /\ reopening' = [reopening EXCEPT ![c] = @ - 1]
  /\ UNCHANGED <<pc, opts, handlers, retry, waitLeft, result, emitted,
                 attempts, opened, opens>>
  /\ UNCHANGED <<waits, waited, fired, reopened>>
  /\ UNCHANGED <<dispVars, links, sendVars>>

\* ------------------------------------------- receivers and consumers
\* (the state below is declared with the connection state; the actions of
\* one part leave the other part's variables unchanged)

\* @Consumer('demo2', { connectionName: 'custom', concurrency: 2 }) and
\* @Consumer('demo3'): the options each registration passes.
ConsumerOptions(r) ==
  IF r = "demo2" THEN [connectionName |-> "custom", concurrency |-> 2]
  ELSE [connectionName |-> "default", concurrency |-> Unset]

\* receiveMessageWithOptions awaits delay() and calls control.accept();
\* receiveError awaits delay() and throws.
HandlerOutcome(r) == IF r = "demo2" THEN "accept" ELSE "throw"

\* The concurrency bound of a registration, 1 when unspecified.
Concurrency(r) ==
  IF ConsumerOptions(r).concurrency = Unset THEN 1
  ELSE ConsumerOptions(r).concurrency

\* The limiter has a free slot; the variant is a limiter that never fills.
HasFreeSlotAlways(r) == TRUE
HasFreeSlot(r) == Cardinality(running[r]) < Concurrency(r)

\* receiverOpen: if (currentCredits < credits) addCredit(credits - currentCredits);
\* the variant adds the credits on every open.
TopUpAlways(current, credits) == current + credits
TopUp(current, credits) ==
  IF current < credits THEN current + (credits - current) ELSE current

\* The disposition of a delivery whose handler ended with `outcome`.
Disposition(outcome) == IF outcome = "accept" THEN "accepted" ELSE "rejected"

\* A handler's exception stops at the dispatch boundary; the variant lets it
\* through.
ExceptionSwallowedNever(outcome) == outcome # "throw"
ExceptionSwallowed(outcome) == TRUE

\* What lastEvent holds after a step that is not a log-only receiver event.
NoEvent == [ev |-> "none", r |-> "none"]

DispInit ==
  /\ attached = [r \in Registrations |-> FALSE]
  /\ prefetch = [r \in Registrations |-> 0]
  /\ credit = [r \in Registrations |-> 0]
  /\ arrived = [r \in Registrations |-> 0]
  /\ waitingQ = [r \in Registrations |-> <<>>]
  /\ running = [r \in Registrations |-> {}]
  /\ dispatched = [r \in Registrations |-> <<>>]
  /\ settled = [r \in Registrations |-> [m \in Messages |-> "none"]]
  /\ alive = [r \in Registrations |-> TRUE]
  /\ logged = [r \in Registrations |-> 0]
  /\ queued = [r \in Registrations |-> {}]
  /\ lastEvent = NoEvent

\* createReceiver: connection.createReceiver and receiver.addCredit(credits).
CreateReceiver(r, p) ==
  /\ ~attached[r]
  /\ attached' = [attached EXCEPT ![r] = TRUE]
  /\ prefetch' = [prefetch EXCEPT ![r] = p]
  /\ credit' = [credit EXCEPT ![r] = @ + p]
  /\ lastEvent' = NoEvent
  /\ UNCHANGED <<arrived, waitingQ, running, dispatched, settled, alive, logged,
                 queued>>
  /\ UNCHANGED <<connVars, links, sendVars>>

\* The link is opened again (after a reconnect, on which the transport may
\* have reset the link's credit to 0): the receiverOpen handler tops it up.
ReceiverOpen(r) ==
  /\ attached[r]
  /\ \E current \in {credit[r], 0} :
       credit' = [credit EXCEPT ![r] = TopUp(current, prefetch[r])]
  /\ lastEvent' = NoEvent
  /\ UNCHANGED <<attached, prefetch, arrived, waitingQ, running, dispatched,
                 settled, alive, logged, queued>>
  /\ UNCHANGED <<connVars, links, sendVars>>

\* receiverClose, receiverDrained, receiverFlow and settled: each handler
\* writes a log line and nothing else.
LogOnlyEvents == {"receiver_close", "receiver_drained", "receiver_flow", "settled"}

ReceiverEvent(r, ev) ==
  /\ attached[r]
  /\ lastEvent' = [ev |-> ev, r |-> r]
  /\ UNCHANGED <<attached, prefetch, credit, arrived, waitingQ, running,
                 dispatched, settled, alive, logged, queued>>
  /\ UNCHANGED <<connVars, links, sendVars>>

\* The peer delivers a message, which takes one credit; the dispatcher
\* starts the handler if a slot is free and queues the delivery otherwise.
Deliver(r) ==
  /\ attached[r] /\ alive[r]
  /\ credit[r] > 0
  /\ arrived[r] < MaxBurst
  /\ LET m == arrived[r] + 1 IN
       /\ arrived' = [arrived EXCEPT ![r] = m]
       /\ credit' = [credit EXCEPT ![r] = @ - 1]
       /\ IF HasFreeSlot(r)
          THEN /\ running' = [running EXCEPT ![r] = @ \cup {m}]
               /\ dispatched' = [dispatched EXCEPT ![r] = Append(@, m)]
               /\ UNCHANGED <<waitingQ, queued>>
          ELSE /\ waitingQ' = [waitingQ EXCEPT ![r] = Append(@, m)]
               /\ queued' = [queued EXCEPT ![r] = @ \cup {m}]
               /\ UNCHANGED <<running, dispatched>>
  /\ lastEvent' = NoEvent
  /\ UNCHANGED <<attached, prefetch, settled, alive, logged>>
  /\ UNCHANGED <<connVars, links, sendVars>>

\* The slot of m is released and the first waiting delivery, if any, takes it;
\* the variant releases the slot and leaves the queue alone.
ReleaseKeepsWaiting(r, m) ==
  /\ running' = [running EXCEPT ![r] = @ \ {m}]
  /\ UNCHANGED <<waitingQ, dispatched>>
ReleaseAndDispatchNext(r, m) ==
  IF waitingQ[r] = <<>>
  THEN /\ running' = [running EXCEPT ![r] = @ \ {m}]
       /\ UNCHANGED <<waitingQ, dispatched>>
  ELSE /\ running' = [running EXCEPT ![r] = (@ \ {m}) \cup {Head(waitingQ[r])}]
       /\ dispatched' = [dispatched EXCEPT ![r] = Append(@, Head(waitingQ[r]))]
       /\ waitingQ' = [waitingQ EXCEPT ![r] = Tail(@)]

\* A handler invocation ends (its delay is over): the delivery is settled by
\* what the handler did, the slot is released, one credit is replenished and
\* the next waiting delivery is dispatched.
HandlerFinish(r, m) ==
  /\ m \in running[r]
  /\ LET outcome == HandlerOutcome(r) IN
       IF ExceptionSwallowed(outcome)
       THEN /\ settled' = [settled EXCEPT ![r][m] = Disposition(outcome)]
            /\ logged' = [logged EXCEPT ![r] =
                 IF outcome = "throw" THEN @ + 1 ELSE @]
            /\ ReleaseAndDispatchNext(r, m)
            /\ credit' = [credit EXCEPT ![r] = @ + 1]
            /\ UNCHANGED alive
       ELSE /\ alive' = [alive EXCEPT ![r] = FALSE]
            /\ UNCHANGED <<settled, logged, running, waitingQ, dispatched, credit>>
  /\ lastEvent' = NoEvent
  /\ UNCHANGED <<attached, prefetch, arrived, queued>>
  /\ UNCHANGED <<connVars, links, sendVars>>

\* ------------------------------------- links on a looked-up connection

\* moduleRef.get(connectionToken, { strict: false }): the value registered
\* under the token is what the createConnection call for it returned; no
\* value is registered for a token no call has returned for.
Registered(token) ==
  {c \in Calls : pc[c] = "returned" /\ getConnectionToken(opts[c]) = token}

\* How connection.createAwaitableSender / connection.createReceiver of the
\* transport library may end: the link attaches or the call rejects.
LibraryOutcomes == {"attached", "rejected"}

\* The lookup and the link creation shared by createSender and
\* createReceiver; the application runs once no createConnection is pending.
\* There is no test of the connection's state between the two.
CreateLink(kind, n) ==
  /\ \A c \in Calls : pc[c] \in {"idle", "returned", "thrown"}
  /\ Len(links) < MaxLinks
  /\ LET found == Registered(getConnectionToken([name |-> n]))
         call(o, c) == [kind |-> kind, name |-> n, outcome |-> o, conn |-> c,
                        state |-> IF c = 0 THEN "none" ELSE connState[c]]
     IN  IF found = {}
         THEN links' = Append(links, call("NotFound", 0))
         ELSE \E c \in found :
                IF result[c].kind = "undefined"
                THEN links' = Append(links, call("TypeError", c))
                ELSE \E o \in LibraryOutcomes : links' = Append(links, call(o, c))
  /\ UNCHANGED <<connVars, dispVars, sendVars>>

\* createSender: token, lookup, connection.createAwaitableSender.
CreateSender(n) == CreateLink("sender", n)

\* createReceiver: lookup, connection.createReceiver.
CreateReceiverLink(n) == CreateLink("receiver", n)

\* ------------------------------------------------------- load tests

Tests == {"loadTestA", "loadTestB"}
Indexes == 0..(MaxCount - 1)

\* Array.from(Array(count).keys())
List(n) == [k \in 1..n |-> k - 1]

\* How a producer.send call ends: a SendResult without error, a SendResult
\* with error, or a rejection of the call itself.
SendOutcomes == {"ok", "error", "rejected"}

SendInit ==
  /\ testPc = [t \in Tests |-> "idle"]
  /\ count = [t \in Tests |-> 0]
  /\ issued = [t \in Tests |-> <<>>]
  /\ outstanding = [t \in Tests |-> {}]
  /\ observed = [t \in Tests |-> [i \in Indexes |-> "none"]]
  /\ errorLog = [t \in Tests |-> <<>>]

\* producer.send is called for each index of `indexes`, in that order.
Issue(t, indexes) ==
  /\ issued' = [issued EXCEPT ![t] = @ \o indexes]
  /\ outstanding' = [outstanding EXCEPT ![t] =
       @ \cup {indexes[k] : k \in 1..Len(indexes)}]

\* if (result.error) logger.error(...) else logger.info(...)
LogResult(t, i, res) ==
  errorLog' = [errorLog EXCEPT ![t] = IF res = "error" THEN Append(@, i) ELSE @]

\* The sends loadTestA has made when it first suspends: for await takes the
\* first index and awaits its send. The variant sends the whole list.
FirstSendsAWhole(n) == List(n)
FirstSendsA(n) == IF n > 0 THEN <<0>> ELSE <<>>

\* loadTestA(count) up to its first suspension.
LoadTestA(n) ==
  /\ testPc["loadTestA"] = "idle"
  /\ count' = [count EXCEPT !["loadTestA"] = n]
  /\ Issue("loadTestA", FirstSendsA(n))
  /\ testPc' = [testPc EXCEPT !["loadTestA"] = IF n > 0 THEN "running" ELSE "done"]
  /\ UNCHANGED <<observed, errorLog>>
  /\ UNCHANGED <<connVars, dispVars, links>>

\* The awaited send of index i settles and the loop body goes on: the result
\* is logged and the next index is sent, or the loop and loadTestA end; a
\* rejection leaves the loop and rejects loadTestA.
ResumeA(i, res) ==
  LET t == "loadTestA" IN
  /\ testPc[t] = "running"
  /\ i \in outstanding[t]
  /\ observed' = [observed EXCEPT ![t][i] = res]
  /\ LogResult(t, i, res)
  /\ IF res = "rejected"
     THEN /\ testPc' = [testPc EXCEPT ![t] = "rejected"]
          /\ outstanding' = [outstanding EXCEPT ![t] = @ \ {i}]
          /\ UNCHANGED issued
     ELSE IF i + 1 < count[t]
     THEN /\ issued' = [issued EXCEPT ![t] = Append(@, i + 1)]
          /\ outstanding' = [outstanding EXCEPT ![t] = (@ \ {i}) \cup {i + 1}]
          /\ UNCHANGED testPc
     ELSE /\ testPc' = [testPc EXCEPT ![t] = "done"]
          /\ outstanding' = [outstanding EXCEPT ![t] = @ \ {i}]
          /\ UNCHANGED issued
  /\ UNCHANGED count
  /\ UNCHANGED <<connVars, dispVars, links>>

\* The sends list.forEach(async i => ...) has made when it returns: each
\* callback runs up to its await, so every index is sent. The variant is a
\* loop that stops at the first await.
ForEachSendsFirst(n) == IF n > 0 THEN <<0>> ELSE <<>>
ForEachSends(n) == List(n)

\* loadTestB(count): forEach starts every callback and loadTestB returns.
LoadTestB(n) ==
  /\ testPc["loadTestB"] = "idle"
  /\ count' = [count EXCEPT !["loadTestB"] = n]
  /\ Issue("loadTestB", ForEachSends(n))
  /\ testPc' = [testPc EXCEPT !["loadTestB"] = "done"]
  /\ UNCHANGED <<observed, errorLog>>
  /\ UNCHANGED <<connVars, dispVars, links>>

\* The send of index i settles and its callback goes on: the result is
\* logged; a rejection ends the callback, whose promise nobody holds.
ResumeB(i, res) ==
  LET t == "loadTestB" IN
  /\ i \in outstanding[t]
  /\ outstanding' = [outstanding EXCEPT ![t] = @ \ {i}]
  /\ observed' = [observed EXCEPT ![t][i] = res]
  /\ LogResult(t, i, res)
  /\ UNCHANGED <<testPc, count, issued>>
  /\ UNCHANGED <<connVars, dispVars, links>>

Init == ConnInit /\ DispInit /\ links = <<>> /\ SendInit

DispatchNext ==
  \/ \E r \in Registrations, p \in 1..MaxPrefetch : CreateReceiver(r, p)
  \/ \E r \in Registrations : ReceiverOpen(r)
  \/ \E r \in Registrations : Deliver(r)
  \/ \E r \in Registrations, m \in Messages : HandlerFinish(r, m)

DispatchSpec == Init /\ [][DispatchNext]_vars

\* The consumer of demo2 alone, with every handler invocation terminating.
Demo2Next ==
  \/ \E p \in 1..MaxPrefetch : CreateReceiver("demo2", p)
  \/ ReceiverOpen("demo2")
  \/ Deliver("demo2")
  \/ \E m \in Messages : HandlerFinish("demo2", m)

\* The receiver of demo2 with every event its link can report.
ReceiverNext ==
  \/ Demo2Next
  \/ \E ev \in LogOnlyEvents : ReceiverEvent("demo2", ev)

ReceiverSpec == Init /\ [][ReceiverNext]_vars

FairDispatchSpec ==
  /\ Init
  /\ [][Demo2Next]_vars
  /\ \A m \in Messages : WF_vars(HandlerFinish("demo2", m))

\* One createConnection call and the life of its connection.
FirstCall == 1

Next ==
  \/ \E o \in Options : CreateConnection(FirstCall, o)
  \/ FirstOpenOk(FirstCall)
  \/ FirstOpenFail(FirstCall)
  \/ Tick
  \/ WaitDone(FirstCall)
  \/ RetryOpenOk(FirstCall)
  \/ RetryOpenFail(FirstCall)
  \/ PeerDisconnected(FirstCall)
  \/ PeerClose(FirstCall)
  \/ TimerFire(FirstCall)
  \/ TimerOpenOk(FirstCall)
  \/ TimerOpenFail(FirstCall)
  \/ FirstOpenRefused(FirstCall)
  \/ RetryOpenRefused(FirstCall)
  \/ TimerOpenRefused(FirstCall)

Spec == Init /\ [][Next]_vars

\* Up to MaxCalls createConnection calls, running concurrently, against
\* peers that refuse no open().
PoolNext ==
  \/ \E c \in Calls, o \in Options : CreateConnection(c, o)
  \/ \E c \in Calls : FirstOpenOk(c)
  \/ \E c \in Calls : FirstOpenFail(c)
  \/ Tick
  \/ \E c \in Calls : WaitDone(c)
  \/ \E c \in Calls : RetryOpenOk(c)
  \/ \E c \in Calls : RetryOpenFail(c)
  \/ \E c \in Calls : PeerDisconnected(c)
  \/ \E c \in Calls : PeerClose(c)
  \/ \E c \in Calls : TimerFire(c)
  \/ \E c \in Calls : TimerOpenOk(c)
  \/ \E c \in Calls : TimerOpenFail(c)

PoolSpec == Init /\ [][PoolNext]_vars

\* One createConnection call in which every open() of createConnection
\* settles and every timer that is due fires; nothing is assumed of the
\* open() calls made by the reopen timers.
FairSpec ==
  /\ Init
  /\ [][Next]_vars
  /\ WF_vars(FirstOpenOk(FirstCall) \/ FirstOpenFail(FirstCall))
  /\ WF_vars(Tick)
  /\ WF_vars(TimerFire(FirstCall))
  /\ WF_vars(WaitDone(FirstCall))
  /\ WF_vars(RetryOpenOk(FirstCall) \/ RetryOpenFail(FirstCall))

\* One createConnection call, and the senders and receivers the application
\* asks for afterwards.
LinkNext ==
  \/ Next
  \/ \E n \in Names : CreateSender(n)
  \/ \E n \in Names : CreateReceiverLink(n)

LinkSpec == Init /\ [][LinkNext]_vars

\* The two load tests of the demo application.
SendNext ==
  \/ \E n \in 0..MaxCount : LoadTestA(n)
  \/ \E i \in Indexes, res \in SendOutcomes : ResumeA(i, res)
  \/ \E n \in 0..MaxCount : LoadTestB(n)
  \/ \E i \in Indexes, res \in SendOutcomes : ResumeB(i, res)

SendSpec == Init /\ [][SendNext]_vars

\* -------------------------------------------------- connection claims

HasOptions(c) == pc[c] # "idle" /\ opts[c] # NullOptions

\* The events emitted for connection c, in order.
EventsOf(c) == SelectSeq(emitted, LAMBDA e : e.conn = c)

\* C1: with reconnect_limit L (3 when unset) and every open failing,
\* createConnection makes exactly L open attempts after the first, then
\* returns the connection, which is not open, and does not throw.
C1_ExactlyLimitRetries ==
  \A c \in Calls :
    (HasOptions(c) /\ pc[c] \in {"returned", "thrown"} /\ opened[c] = 0)
      => /\ attempts[c] = ReconnectLimit(opts[c])
         /\ pc[c] = "returned"
         /\ ~IsOpen(c)

\* C2: every successful reopen after a peer-initiated disconnect is preceded
\* by exactly one CONNECTION_DISCONNECTED of that connection and is the only
\* CONNECTION_RECONNECT of that disconnect.
C2_OneDisconnectedThenOneReconnect ==
  \A c \in Calls :
    LET s == EventsOf(c) IN
    \A i \in 1..Len(s) :
      (s[i].ev = AMQP_CONNECTION_RECONNECT /\ s[i].by = "timer")
        => /\ i >= 2
           /\ s[i - 1].ev = AMQP_CONNECTION_DISCONNECTED
           /\ (i >= 3 => s[i - 2].ev # AMQP_CONNECTION_DISCONNECTED)
           /\ (i < Len(s) => s[i + 1].ev = AMQP_CONNECTION_DISCONNECTED)

\* C3: a connection that was closed and has not been reopened always has a
\* reopen ahead of it: a reopen timer pending or a timer's open() in flight
\* (after a failed reopen another one is scheduled, without bound).
C3_ClosedConnectionHasReopenPending ==
  \A c \in Calls :
    connState[c] = "closed" => (timers[c] # <<>> \/ reopening[c] > 0)

\* C4: a createConnection call with options never throws and, whenever it
\* has returned, has returned the Connection object.
C4_ReturnsConnection ==
  \A c \in Calls :
    HasOptions(c)
      => /\ pc[c] # "thrown"
         /\ (pc[c] = "returned"
               => result[c] = [kind |-> "connection", conn |-> c])

\* C5: createConnection without options fails with an error that names the
\* connection token; no connection is created, no handler registered, no
\* open attempted and no event emitted.
C5_NullOptionsRejected ==
  \A c \in Calls :
    (pc[c] # "idle" /\ opts[c] = NullOptions)
      => /\ pc[c] = "thrown"
         /\ result[c].kind = "Error"
         /\ result[c].token = getConnectionToken(opts[c])
         /\ connState[c] = "none"
         /\ handlers[c] = {}
         /\ opens[c] = 0
         /\ timers[c] = <<>>
         /\ EventsOf(c) = <<>>

C5_Witness == pc[FirstCall] = "thrown" /\ opts[FirstCall] = NullOptions

\* C10: no two live connections share a connection token.
C10_OneLiveConnectionPerToken ==
  \A c, d \in Calls :
    (IsOpen(c) /\ IsOpen(d)
       /\ getConnectionToken(opts[c]) = getConnectionToken(opts[d]))
      => c = d

\* The number of events ev emitted for connection c by `by`.
CountOf(c, ev, by) ==
  Len(SelectSeq(emitted, LAMBDA e : e.conn = c /\ e.ev = ev /\ e.by = by))

\* The events emitted for connection c by its reopen timers, in order.
TimerEventsOf(c) == SelectSeq(emitted, LAMBDA e : e.conn = c /\ e.by = "timer")

\* The open() calls on connection c that have not settled.
InFlight(c) ==
  (IF pc[c] \in {"firstOpen", "retryOpen"} THEN 1 ELSE 0) + reopening[c]

\* C15: in the bounded open-retry path every re-attempt follows exactly one
\* wait of initial_reconnect_delay (3000 ms when unset), createConnection
\* makes no open attempt while a wait is pending, the loop stops at the
\* first attempt that leaves the connection open, and no wait follows the
\* last attempt.
C15_OneWaitBeforeEachRetry ==
  \A c \in Calls :
    HasOptions(c) =>
      LET d == IF opts[c].initial_reconnect_delay = Unset
               THEN DefaultReconnectDelay
               ELSE opts[c].initial_reconnect_delay
      IN  /\ pc[c] = "waiting"
               => (waits[c] = attempts[c] + 1 /\ waited[c] <= d)
          /\ pc[c] = "retryOpen" => (waits[c] = attempts[c] /\ waited[c] = d)
          /\ pc[c] = "returned"
               => (waits[c] = attempts[c] /\ (attempts[c] > 0 => waited[c] = d))
          /\ pc[c] \in {"waiting", "retryOpen"} => opened[c] = 0
          /\ opened[c] <= 1
          /\ opened[c] = 1 => pc[c] = "returned"

C15_Witness ==
  /\ pc[FirstCall] = "returned"
  /\ HasOptions(FirstCall)
  /\ opts[FirstCall].initial_reconnect_delay = Unset
  /\ attempts[FirstCall] = 2
  /\ opened[FirstCall] = 1

\* C16: two open() calls on the same connection never overlap, whatever the
\* interleaving of close events, reopen timers and the open-retry loop.
C16_OpensNeverOverlap == \A c \in Calls : InFlight(c) <= 1

C16_Witness ==
  /\ closes[FirstCall] = 2
  /\ reopening[FirstCall] = 1
  /\ pc[FirstCall] = "returned"

\* C17: each connection close event schedules exactly one reopen timer; each
\* timer that fires makes exactly one synthetic disconnected dispatch and
\* then exactly one open attempt, so CONNECTION_DISCONNECTED is emitted
\* before that attempt starts; CONNECTION_RECONNECT is emitted once if that
\* attempt succeeds and not at all if it fails.
C17_OneTimerOneDispatchOneOpen ==
  \A c \in Calls :
    LET s == TimerEventsOf(c) IN
      /\ closes[c] = Len(timers[c]) + fired[c]
      /\ CountOf(c, AMQP_CONNECTION_DISCONNECTED, "timer") = fired[c]
      /\ connState[c] # "none" => opens[c] = 1 + attempts[c] + fired[c]
      /\ CountOf(c, AMQP_CONNECTION_RECONNECT, "timer") = reopened[c]
      /\ reopened[c] + reopening[c] <= fired[c]
      /\ \A i \in 1..Len(s) :
           LET n(ev) == Len(SelectSeq(SubSeq(s, 1, i), LAMBDA e : e.ev = ev))
           IN  n(AMQP_CONNECTION_RECONNECT) <= n(AMQP_CONNECTION_DISCONNECTED)

C17_Witness ==
  /\ fired[FirstCall] = 2
  /\ reopened[FirstCall] = 1
  /\ reopening[FirstCall] = 0

\* C18: a createConnection call emits CONNECTION_RECONNECT at most once, and
\* only right after a retry that leaves the connection open; it emits
\* nothing when the first open succeeds or when every retry fails, and it
\* never emits CONNECTION_DISCONNECTED.
C18_CreateEmitsOnlyAfterSuccessfulRetry ==
  \A c \in Calls :
    LET n == CountOf(c, AMQP_CONNECTION_RECONNECT, "create") IN
      /\ CountOf(c, AMQP_CONNECTION_DISCONNECTED, "create") = 0
      /\ n <= 1
      /\ n = 1 <=> (pc[c] = "returned" /\ attempts[c] >= 1 /\ opened[c] = 1)

C18_Witness ==
  /\ CountOf(FirstCall, AMQP_CONNECTION_RECONNECT, "create") = 1
  /\ attempts[FirstCall] = 2
  /\ Len(EventsOf(FirstCall)) >= 2

\* C19: if every open() settles and every wait ends, a createConnection call
\* ends after at most 1 + max(1, reconnect_limit) open attempts, and it does
\* so without any progress of the reopen timers.
C19_CreateConnectionTerminates ==
  /\ [](HasOptions(FirstCall)
          => 1 + attempts[FirstCall]
               <= 1 + (IF ReconnectLimit(opts[FirstCall]) > 1
                       THEN ReconnectLimit(opts[FirstCall]) ELSE 1))
  /\ (pc[FirstCall] # "idle") ~> (pc[FirstCall] \in {"returned", "thrown"})

C19_Witness ==
  /\ pc[FirstCall] = "returned"
  /\ opened[FirstCall] = 0
  /\ attempts[FirstCall] = MaxLimit

\* ------------------------------------------------------ link claims

\* C11: createSender and createReceiver attach a link only to a connection
\* that is open: for a token without a connection they fail with a
\* connection-not-found error, and on a connection whose bounded open
\* retries are exhausted no link is created.
C11_LinksOnlyOnOpenConnections ==
  \A i \in 1..Len(links) :
    /\ links[i].conn = 0 => links[i].outcome = "NotFound"
    /\ links[i].outcome = "attached" => links[i].state = "open"

\* --------------------------------------------------- consumer claims

\* The deliveries of r whose handler has run to its end.
Done(r) ==
  {m \in Messages :
     (\E i \in 1..Len(dispatched[r]) : dispatched[r][i] = m) /\ m \notin running[r]}

\* C6: a receiver created with prefetch P holds a credit within 0..P in
\* every reachable state.
C6_CreditWithinPrefetch ==
  \A r \in Registrations :
    attached[r] => (0 <= credit[r] /\ credit[r] <= prefetch[r])

\* C7: the handler invocations of a registration that have started and not
\* completed never outnumber its concurrency (1 when unspecified).
C7_RunningWithinConcurrency ==
  \A r \in Registrations : Cardinality(running[r]) <= Concurrency(r)

C7_Witness ==
  /\ Cardinality(running["demo2"]) = 2
  /\ waitingQ["demo2"] # <<>>

\* C8: when receiveError throws, its delivery gets a negative disposition,
\* the error is logged and stays inside the dispatcher, the slot is released
\* and a waiting delivery takes it; the consumer goes on.
C8_ThrowingHandlerIsAbsorbed ==
  LET r == "demo3" IN
    /\ alive[r]
    /\ \A m \in Done(r) : settled[r][m] = "rejected"
    /\ \A m \in Messages \ Done(r) : settled[r][m] = "none"
    /\ logged[r] = Cardinality(Done(r))
    /\ running[r] \cap Done(r) = {}
    /\ (waitingQ[r] # <<>> => Cardinality(running[r]) = Concurrency(r))

C8_Witness ==
  /\ settled["demo3"][1] = "rejected"
  /\ 2 \in queued["demo3"]
  /\ settled["demo3"][2] = "rejected"
  /\ 3 \in running["demo3"]

\* C9: handlers of demo2 start in arrival order, and every delivery to demo2
\* is eventually dispatched and settled positively.
C9_EveryDeliveryAccepted ==
  LET r == "demo2" IN
    /\ [](\A i, j \in 1..Len(dispatched[r]) :
            i < j => dispatched[r][i] < dispatched[r][j])
    /\ \A m \in Messages :
         (arrived[r] >= m) ~> (m \in Done(r) /\ settled[r][m] = "accepted")

C9_Witness ==
  /\ \A m \in Messages : settled["demo2"][m] = "accepted"
  /\ queued["demo2"] # {}

\* C12: createReceiver grants an initial credit equal to prefetch; on each
\* link open the handler, finding credit c, adds exactly prefetch - c when
\* c < prefetch, so that the credit equals prefetch, and leaves the credit
\* alone when c >= prefetch; drain, flow, close and settled events never
\* change the credit.
C12_CreditChangesOnlyOnAttachAndOpen ==
  [][\A r \in Registrations :
       /\ (\E p \in 1..MaxPrefetch : CreateReceiver(r, p))
            => credit'[r] = prefetch'[r]
       /\ ReceiverOpen(r)
            => \E c \in {credit[r], 0} :
                 credit'[r] = IF c < prefetch[r] THEN c + (prefetch[r] - c) ELSE c
       /\ (\E ev \in LogOnlyEvents : ReceiverEvent(r, ev))
            => credit'[r] = credit[r]]_vars

\* A delivery is in its handler and the credit is back at the prefetch, which
\* only a top-up on link open brings about; then a log-only event.
C12_Witness ==
  LET r == "demo2" IN
    /\ lastEvent.ev \in LogOnlyEvents
    /\ arrived[r] = 1
    /\ running[r] = {1}
    /\ prefetch[r] = MaxPrefetch
    /\ credit[r] = prefetch[r]

\* ------------------------------------------------- load test claims

\* C13: loadTestA sends in index order 0..n-1, sends index i+1 only after the
\* result of index i has resolved, so at most one send is outstanding, and
\* completes only after all n results have been seen.
C13_SequentialSends ==
  LET t == "loadTestA" IN
    /\ \A k \in 1..Len(issued[t]) : issued[t][k] = k - 1
    /\ \A k \in 1..Len(issued[t]) :
         k < Len(issued[t]) => observed[t][k - 1] # "none"
    /\ Cardinality(outstanding[t]) <= 1
    /\ testPc[t] = "done"
         => /\ Len(issued[t]) = count[t]
            /\ \A i \in Indexes : i < count[t] => observed[t][i] # "none"

C13_Witness ==
  /\ testPc["loadTestA"] = "done"
  /\ count["loadTestA"] = MaxCount
  /\ errorLog["loadTestA"] = <<1>>

\* C14: loadTestB sends all n indexes in index order without waiting for a
\* result and completes without waiting for a send to resolve; the results
\* may resolve in any order; a failed send is logged and nothing more: the
\* other sends go on and loadTestB's caller is not told.
C14_FireAndForget ==
  LET t == "loadTestB" IN
    testPc[t] # "idle"
      => /\ testPc[t] = "done"
         /\ Len(issued[t]) = count[t]
         /\ \A k \in 1..Len(issued[t]) : issued[t][k] = k - 1
         /\ \A i \in Indexes :
              i < count[t] => (i \in outstanding[t] <=> observed[t][i] = "none")
         /\ \A i \in Indexes :
              Len(SelectSeq(errorLog[t], LAMBDA j : j = i))
                = IF observed[t][i] = "error" THEN 1 ELSE 0

C14_Witness ==
  LET t == "loadTestB" IN
    /\ testPc[t] = "done"
    /\ 0 \in outstanding[t]
    /\ observed[t][2] = "error"
    /\ observed[t][1] = "ok"
    /\ errorLog[t] = <<2>>

====
